---- MODULE Spec2Model ----
(***************************************************************************)
(* Command pattern with undo: src/VanillaPatterns/DesignPatterns/          *)
(* CommandPattern.ts.  Receivers (Light, TV), leaf commands, MacroCommand  *)
(* and the RemoteControl invoker with its one-slot undo history.           *)
(***************************************************************************)
EXTENDS Integers, Sequences, FiniteSets, TLC

\* Most setCommand calls on one RemoteControl that the model explores.
MaxCommands == 2

\* Most addCommand calls on one queueing RemoteControl that the model explores.
MaxAdds == 3

\* Most getInstance() calls per ConfigurationManager class that the model
\* explores.
MaxCalls == 3

\* Most Character objects (the template and its clones) that the model
\* explores.
MaxObjects == 2

\* Longest inventory that the model explores.
MaxItems == 3

Null == "null"

\* ------------------------------------------------------------------------
\* Objects the client code constructs
\* ------------------------------------------------------------------------

\* const lightOn, lightOff, tvOn, tvOff
LeafCommands == {"lightOn", "lightOff", "tvOn", "tvOff"}

\* const partyModeOn, partyModeOff
MacroCommands == {"partyModeOn", "partyModeOff"}

Commands == LeafCommands \cup MacroCommands

Receivers == {"light", "tv"}

\* The array literal each MacroCommand is constructed with.
ConstructionOrder(m) ==
  IF m = "partyModeOn" THEN <<"lightOn", "tvOn">> ELSE <<"lightOff", "tvOff">>

\* Mutant of ReceiverCall: undo() repeats the action of execute().
ReceiverCall_UndoRepeats(c, method) ==
  [recv   |-> IF c \in {"lightOn", "lightOff"} THEN "light" ELSE "tv",
   action |-> IF c \in {"lightOn", "tvOn"} THEN "on" ELSE "off"]

\* The receiver action a leaf command's method delegates to:
\* LightOnCommand.execute -> light.on(), LightOnCommand.undo -> light.off(), ...
ReceiverCall(c, method) ==
  [recv   |-> IF c \in {"lightOn", "lightOff"} THEN "light" ELSE "tv",
   action |-> IF (c \in {"lightOn", "tvOn"}) = (method = "execute")
              THEN "on" ELSE "off"]

\* What Light.on/off and TV.on/off print.
Message(call) ==
  IF call.recv = "light"
  THEN (IF call.action = "on" THEN "Light is ON" ELSE "Light is OFF")
  ELSE (IF call.action = "on" THEN "TV is ON" ELSE "TV is OFF")

\* Array.prototype.reverse, as a value.
Reverse(s) == [i \in 1..Len(s) |-> s[Len(s) + 1 - i]]

\* ------------------------------------------------------------------------
\* State
\* ------------------------------------------------------------------------
VARIABLES
  commands,     \* RemoteControl.commands: the registered commands, index 0 first
  undoCommand,  \* RemoteControl.undoCommand: a command or Null
  receivers,    \* the on/off status each receiver announced last
  arr,          \* the member array each MacroCommand holds by reference (the
                \* caller's array is the same object)
  console,      \* lines printed by the most recent call
  invoked,      \* <<command, method>> calls made by the most recent call
  raised,       \* whether the most recent call ended by throwing
  op,           \* the most recent call: its name and arguments
  before,       \* while the most recent call is a pressButton: the receivers'
                \* status on entry to it (otherwise the current status)
  lastExec,     \* per macro, the member order its most recent execute() used
  pc,           \* how many calls of the client script the calls made so far
                \* are, or OffScript when they are not a prefix of it
  undoParity,   \* per macro, the number of undo() calls made on it, modulo 2
  retried,      \* the most recent call is a pressUndo() that directly follows
                \* a pressUndo() out of which an exception propagated
  by,           \* with several callers: the caller of the most recent call
  own,          \* per caller, the command of its latest valid pressButton,
                \* until its next pressUndo (Null otherwise)
  slotBy,       \* who wrote the slot last, and how: "dispatch" or "undo"
  races,        \* the ways a caller's pressUndo() has gone wrong so far
  queue,        \* the queueing RemoteControl's commands: its entries in order,
                \* each with the number of the addCommand call that added it
  added,        \* the number of addCommand calls made
  runs,         \* per addCommand call, how many executeCommands() calls have
                \* executed its entry
  lastRun,      \* the entries the most recent executeCommands() executed
  cls,          \* per module, its ConfigurationManager class: the static
                \* instance, the objects constructed, the loadConfigurations()
                \* calls made
  returned,     \* per module, what each getInstance() call returned
  objs,         \* the Character objects: each one's prototype (0: none) and
                \* own properties; inventory and skills hold references
  arrays,       \* the inventory arrays, by reference
  maps          \* the skills objects, by reference

singletonVars == <<cls, returned>>

prototypeVars == <<objs, arrays, maps>>

callerVars == <<by, own, slotBy, races>>

queueVars == <<queue, added, runs, lastRun>>

\* The undo RemoteControl, its commands and receivers.
remoteVars == <<commands, undoCommand, receivers, arr, before, lastExec, pc,
                undoParity, retried, callerVars>>

vars == <<commands, undoCommand, receivers, arr, console, invoked, raised, op,
          before, lastExec, pc, undoParity, retried, callerVars, queueVars,
          singletonVars, prototypeVars>>

\* The program state a call reads and writes, with the trace of the call.
\* fault counts down to the receiver action that throws (0: none does).
Start(fault) ==
  [commands |-> commands, undoCommand |-> undoCommand, receivers |-> receivers,
   arr |-> arr, console |-> <<>>, invoked |-> <<>>, raised |-> FALSE,
   fault |-> fault]

\* ------------------------------------------------------------------------
\* Receivers and commands
\* ------------------------------------------------------------------------

\* light.on(), light.off(), tv.on(), tv.off(): print the status.  A throwing
\* action (fault = 1) prints nothing and changes nothing.
receiverAction(call, s) ==
  IF s.fault = 1
  THEN [s EXCEPT !.raised = TRUE, !.fault = 0]
  ELSE [s EXCEPT !.receivers[call.recv] = (call.action = "on"),
                 !.console = Append(@, Message(call)),
                 !.fault = IF @ > 0 THEN @ - 1 ELSE 0]

\* LightOnCommand / LightOffCommand / TVOnCommand / TVOffCommand
\* .execute() and .undo()
leafCall(c, method, s) ==
  receiverAction(ReceiverCall(c, method),
                 [s EXCEPT !.invoked = Append(@, <<c, method>>)])

\* Array.prototype.forEach((command) => command.<method>()); a throw ends it.
RECURSIVE forEach(_, _, _)
forEach(members, method, s) ==
  IF members = <<>> \/ s.raised
  THEN s
  ELSE forEach(Tail(members), method, leafCall(Head(members), method, s))

\* MacroCommand.execute(): this.commands.forEach(c => c.execute())
macroExecute(m, s) ==
  forEach(s.arr[m], "execute",
          [s EXCEPT !.invoked = Append(@, <<m, "execute">>)])

\* Mutant of undoArray: the array is iterated as it is, never reversed.
undoArray_NoReverse(a) == a

\* The array MacroCommand.undo() iterates: this.commands.reverse() reverses
\* the array in place and returns it.
undoArray(a) == Reverse(a)

\* MacroCommand.undo(): this.commands.reverse().forEach(c => c.undo())
macroUndo(m, s) ==
  LET r == undoArray(s.arr[m])
  IN  forEach(r, "undo",
              [s EXCEPT !.arr[m] = r,
                        !.invoked = Append(@, <<m, "undo">>)])

\* command.execute() / command.undo() through the Command interface
commandCall(c, method, s) ==
  IF c \in LeafCommands THEN leafCall(c, method, s)
  ELSE IF method = "execute" THEN macroExecute(c, s)
  ELSE macroUndo(c, s)

\* ------------------------------------------------------------------------
\* RemoteControl
\* ------------------------------------------------------------------------

\* Mutant of setCommand: the list is replaced by the one command.
setCommand_Replaces(c, s) == [s EXCEPT !.commands = <<c>>]

\* Mutant of setCommand: the command is put in front (unshift).
setCommand_Unshift(c, s) == [s EXCEPT !.commands = <<c>> \o @]

\* setCommand: this.commands.push(command)
setCommand(c, s) == [s EXCEPT !.commands = Append(@, c)]

\* The guard of pressButton: index < this.commands.length
inRange(index, cmds) == index < Len(cmds)

\* Mutant of storeForUndo: keeps a command the slot already holds.
storeForUndo_KeepsOld(c, s) ==
  IF s.undoCommand = Null THEN [s EXCEPT !.undoCommand = c] ELSE s

\* this.undoCommand = this.commands[index]
storeForUndo(c, s) == [s EXCEPT !.undoCommand = c]

\* Mutant of commandNotFound: also forgets the last executed command.
commandNotFound_ClearsSlot(s) ==
  [s EXCEPT !.console = Append(@, "Command not found"), !.undoCommand = Null]

\* The else branch of pressButton: console.log("Command not found")
commandNotFound(s) == [s EXCEPT !.console = Append(@, "Command not found")]

\* Mutant of pressButton: remembers this.commands[index + 1] for undo.
pressButton_StoresNext(index, s) ==
  IF inRange(index, s.commands)
  THEN IF index + 1 \in DOMAIN s.commands
       THEN LET c == s.commands[index + 1]
                e == commandCall(c, "execute", s)
            IN  IF e.raised THEN e
                ELSE [e EXCEPT !.undoCommand =
                        IF index + 2 \in DOMAIN s.commands
                        THEN s.commands[index + 2] ELSE Null]
       ELSE [s EXCEPT !.raised = TRUE]
  ELSE commandNotFound(s)

\* pressButton(index).  this.commands[index] of an index outside the array is
\* undefined, and undefined.execute() throws a TypeError.
pressButton(index, s) ==
  IF inRange(index, s.commands)
  THEN IF index + 1 \in DOMAIN s.commands
       THEN LET c == s.commands[index + 1]
                e == commandCall(c, "execute", s)
            IN  IF e.raised THEN e ELSE storeForUndo(c, e)
       ELSE [s EXCEPT !.raised = TRUE]
  ELSE commandNotFound(s)

\* Mutant of clearUndo: the slot is left as it was.
clearUndo_KeepsSlot(s) == s

\* this.undoCommand = null
clearUndo(s) == [s EXCEPT !.undoCommand = Null]

\* The else branch of pressUndo: console.log("No command to undo")
noCommandToUndo(s) == [s EXCEPT !.console = Append(@, "No command to undo")]

\* Mutant of pressUndo: the slot is reset even when undo() throws.
pressUndo_ClearsOnThrow(s) ==
  IF s.undoCommand # Null
  THEN clearUndo(commandCall(s.undoCommand, "undo", s))
  ELSE noCommandToUndo(s)

\* pressUndo()
pressUndo(s) ==
  IF s.undoCommand # Null
  THEN LET e == commandCall(s.undoCommand, "undo", s)
       IN  IF e.raised THEN e ELSE clearUndo(e)
  ELSE noCommandToUndo(s)

\* ------------------------------------------------------------------------
\* Actions
\* ------------------------------------------------------------------------

\* The member calls among the calls of the most recent operation.
MemberCalls(m, method, calls) ==
  IF calls # <<>> /\ Head(calls) = <<m, method>>
  THEN [i \in 1..(Len(calls) - 1) |-> calls[i + 1][1]]
  ELSE <<>>

\* The calls the client code makes on its remote after the setCommand calls:
\* pressButton(0) ... pressButton(5), pressUndo().
ClientScript ==
  [k \in 1..7 |->
     IF k <= 6 THEN [name |-> "pressButton", index |-> k - 1, cmd |-> Null]
     ELSE [name |-> "pressUndo", index |-> 0, cmd |-> Null]]

OffScript == Len(ClientScript) + 1

\* Records the outcome r of a call as the next state.
Commit(r, name, index, c) ==
  /\ commands' = r.commands
  /\ undoCommand' = r.undoCommand
  /\ receivers' = r.receivers
  /\ arr' = r.arr
  /\ console' = r.console
  /\ invoked' = r.invoked
  /\ raised' = r.raised
  /\ op' = [name |-> name, index |-> index, cmd |-> c]
  /\ before' = IF name = "pressButton" THEN receivers ELSE r.receivers
  /\ lastExec' = [m \in MacroCommands |->
                    IF r.invoked # <<>> /\ Head(r.invoked) = <<m, "execute">>
                    THEN MemberCalls(m, "execute", r.invoked)
                    ELSE lastExec[m]]
  /\ pc' = IF /\ pc < Len(ClientScript)
              /\ ClientScript[pc + 1] = [name |-> name, index |-> index, cmd |-> c]
           THEN pc + 1
           ELSE OffScript
  /\ undoParity' = [m \in MacroCommands |->
                      IF r.invoked # <<>> /\ Head(r.invoked) = <<m, "undo">>
                      THEN 1 - undoParity[m]
                      ELSE undoParity[m]]
  /\ retried' = (name = "pressUndo" /\ op.name = "pressUndo" /\ raised)
  /\ UNCHANGED <<queueVars, singletonVars, prototypeVars>>

\* The receiver actions of one call that can be made to throw: the first or
\* the second (a macro of the client code makes two).
Faults == 0..2

\* Calls made by the one caller of a remote that is not shared.
SingleCaller == UNCHANGED callerVars

SetCommand(c) ==
  /\ Len(commands) < MaxCommands
  /\ Commit(setCommand(c, Start(0)), "setCommand", 0, c)
  /\ SingleCaller

\* The indices a caller tries: every valid one, one below and one above.
Indices == (0 - 1)..Len(commands)

PressButton(index, fault) ==
  /\ index \in Indices
  /\ Commit(pressButton(index, Start(fault)), "pressButton", index, Null)
  /\ SingleCaller

PressUndo(fault) ==
  /\ fault \in Faults
  /\ Commit(pressUndo(Start(fault)), "pressUndo", 0, Null)
  /\ SingleCaller

\* The client calls a macro's execute() or undo() itself.
MacroExecute(m, fault) ==
  /\ m \in MacroCommands
  /\ Commit(macroExecute(m, Start(fault)), "execute", 0, m)
  /\ SingleCaller

MacroUndo(m, fault) ==
  /\ m \in MacroCommands
  /\ Commit(macroUndo(m, Start(fault)), "undo", 0, m)
  /\ SingleCaller

\* Two callers that share one RemoteControl.  Every call runs to completion
\* before the next starts (one thread), so calls interleave whole.
Callers == {"A", "B"}

CallerPressButton(caller, index) ==
  /\ index \in Indices
  /\ LET r == pressButton(index, Start(0))
         valid == 0 <= index /\ index < Len(commands)
     IN  /\ Commit(r, "pressButton", index, Null)
         /\ by' = caller
         /\ own' = IF valid THEN [own EXCEPT ![caller] = commands[index + 1]]
                   ELSE own
         /\ slotBy' = IF valid THEN [caller |-> caller, how |-> "dispatch"]
                      ELSE slotBy
         /\ races' = races

CallerPressUndo(caller) ==
  LET r == pressUndo(Start(0))
      undid == r.invoked # <<>>
  IN  /\ Commit(r, "pressUndo", 0, Null)
      /\ by' = caller
      /\ own' = [own EXCEPT ![caller] = Null]
      /\ slotBy' = IF undid THEN [caller |-> caller, how |-> "undo"]
                   ELSE slotBy
      /\ races' = races
           \cup (IF undid /\ own[caller] # Null /\ slotBy.caller # caller
                 THEN {"stolen"} ELSE {})
           \cup (IF ~undid /\ own[caller] # Null
                 THEN {"emptied"} ELSE {})

\* ------------------------------------------------------------------------
\* The queueing RemoteControl (command pattern without undo)
\* ------------------------------------------------------------------------

\* const turnOnLight, turnOffLight, turnOnFan, setFanSpeed, playMusic,
\* setVolume
QueueCommands ==
  {"turnOnLight", "turnOffLight", "turnOnFan", "setFanSpeed", "playMusic",
   "setVolume"}

\* What execute() of each command makes its receiver print.
QueueMessage(c) ==
  CASE c = "turnOnLight"  -> "Light is ON"
    [] c = "turnOffLight" -> "Light is OFF"
    [] c = "turnOnFan"    -> "Fan is ON"
    [] c = "setFanSpeed"  -> "Fan speed set to 3"
    [] c = "playMusic"    -> "MusicPlayer is playing"
    [] c = "setVolume"    -> "MusicPlayer volume set to 10"

\* addCommand: this.commands.push(command)
addCommand(entry, q) == Append(q, entry)

\* for (const command of this.commands) command.execute()
RECURSIVE forOf(_, _)
forOf(entries, s) ==
  IF entries = <<>>
  THEN s
  ELSE forOf(Tail(entries),
             [s EXCEPT !.invoked = Append(@, <<Head(entries).cmd, "execute">>),
                       !.console = Append(@, QueueMessage(Head(entries).cmd)),
                       !.executed = Append(@, Head(entries))])

\* Mutant of clearCommands: the list is left as it was.
clearCommands_KeepsList(q) == q

\* this.commands = []
clearCommands(q) == <<>>

\* executeCommands()
executeCommands(q) ==
  LET s == forOf(q, [console |-> <<"RemoteControl: Executing commands...">>,
                     invoked |-> <<>>, executed |-> <<>>])
  IN  [queue |-> clearCommands(q), console |-> s.console,
       invoked |-> s.invoked, executed |-> s.executed]

\* How many times entry number id occurs in a sequence of entries.
Occurrences(id, entries) ==
  Cardinality({k \in DOMAIN entries : entries[k].id = id})

AddCommand(c) ==
  /\ added < MaxAdds
  /\ queue' = addCommand([cmd |-> c, id |-> added + 1], queue)
  /\ added' = added + 1
  /\ runs' = Append(runs, 0)
  /\ console' = <<>>
  /\ invoked' = <<>>
  /\ raised' = FALSE
  /\ op' = [name |-> "addCommand", index |-> 0, cmd |-> c]
  /\ UNCHANGED <<lastRun, remoteVars, singletonVars, prototypeVars>>

ExecuteCommands ==
  LET r == executeCommands(queue)
  IN  /\ queue' = r.queue
      /\ lastRun' = r.executed
      /\ runs' = [id \in DOMAIN runs |->
                    runs[id] + Occurrences(id, r.executed)]
      /\ console' = r.console
      /\ invoked' = r.invoked
      /\ raised' = FALSE
      /\ op' = [name |-> "executeCommands", index |-> 0, cmd |-> Null]
      /\ UNCHANGED <<added, remoteVars, singletonVars, prototypeVars>>

\* ------------------------------------------------------------------------
\* ConfigurationManager (singleton)
\* ------------------------------------------------------------------------

\* The two modules that each declare a ConfigurationManager class of their
\* own, with the same code.
Modules == {"Singleton/Example.ts", "part_004"}

\* private static instance: declared without a value, so undefined.  Objects
\* are numbered from 1 in the order they are constructed.
NoInstance == 0

\* The record loadConfigurations() returns.
Configurations ==
  [theme |-> "dark", apiUrl |-> "https://api.example.com", timeout |-> 5000]

\* loadConfigurations(): returns Configurations; the class state counts the
\* call.
loadConfigurations(k) == [k EXCEPT !.loads = @ + 1]

\* new ConfigurationManager(): this.settings = this.loadConfigurations()
construct(k) ==
  [loadConfigurations(k) EXCEPT !.objects = Append(@, Configurations)]

\* Mutant of getInstance: a new object on every call.
getInstance_AlwaysNew(k) ==
  LET made == construct(k)
  IN  [made EXCEPT !.instance = Len(made.objects)]

\* getInstance(): constructs the instance when there is none; its result is
\* the instance field afterwards.
getInstance(k) ==
  IF k.instance = NoInstance
  THEN LET made == construct(k)
       IN  [made EXCEPT !.instance = Len(made.objects)]
  ELSE k

\* getSetting(key): this.settings[key], undefined for a key that is not set.
getSetting(settings, key) ==
  IF key \in DOMAIN settings THEN settings[key] ELSE "undefined"

Keys == {"theme", "apiUrl", "timeout", "language"}

GetInstance(m) ==
  /\ Len(returned[m]) < MaxCalls
  /\ LET k == getInstance(cls[m])
     IN  /\ cls' = [cls EXCEPT ![m] = k]
         /\ returned' = [returned EXCEPT ![m] = Append(@, k.instance)]
  /\ console' = <<>>
  /\ invoked' = <<>>
  /\ raised' = FALSE
  /\ op' = [name |-> "getInstance", index |-> 0, cmd |-> m]
  /\ UNCHANGED <<remoteVars, queueVars, prototypeVars>>

\* config.getSetting(key) on the h-th reference the client got, printed.
GetSetting(m, h, key) ==
  /\ h \in DOMAIN returned[m]
  /\ console' = <<getSetting(cls[m].objects[returned[m][h]], key)>>
  /\ invoked' = <<>>
  /\ raised' = FALSE
  /\ op' = [name |-> "getSetting", index |-> h, cmd |-> m]
  /\ UNCHANGED <<remoteVars, queueVars, singletonVars, prototypeVars>>

\* ------------------------------------------------------------------------
\* Character (prototype)
\* ------------------------------------------------------------------------

ScalarFields == {"name", "health", "attackPower", "speed"}

Fields == ScalarFields \cup {"inventory", "skills"}

\* const WarriorTemplate = new Character("Warrior", 100, 20, 10), with the
\* skills and inventory assigned to it next: array 1 and skills object 1.
WarriorTemplate ==
  [proto |-> 0,
   own   |-> ("name" :> "Warrior") @@ ("health" :> 100)
             @@ ("attackPower" :> 20) @@ ("speed" :> 10)
             @@ ("inventory" :> 1) @@ ("skills" :> 1)]

\* Reading o.f: the object's own property, or else its prototype's.
RECURSIVE Lookup(_, _, _)
Lookup(os, o, f) ==
  IF f \in DOMAIN os[o].own THEN os[o].own[f]
  ELSE IF os[o].proto = 0 THEN "undefined"
  ELSE Lookup(os, os[o].proto, f)

\* What a reader of o.f sees: for inventory and skills, the contents of the
\* array or object the property refers to.
Value(os, as, ms, o, f) ==
  LET v == Lookup(os, o, f)
  IN  IF f = "inventory" THEN as[v]
      ELSE IF f = "skills" THEN ms[v]
      ELSE v

\* clone() of a character that belongs to no team: Object.create(this), then
\* clone.inventory = [...this.inventory] and clone.skills = {...this.skills}.
clone(os, as, ms, src) ==
  [objs   |-> Append(os, [proto |-> src,
                          own   |-> ("inventory" :> Len(as) + 1)
                                    @@ ("skills" :> Len(ms) + 1)]),
   arrays |-> Append(as, as[Lookup(os, src, "inventory")]),
   maps   |-> Append(ms, ms[Lookup(os, src, "skills")])]

\* o.f = v: sets an own property of o.
assign(os, o, f, v) == [os EXCEPT ![o].own = (f :> v) @@ @]

\* The value the model writes to each scalar field.
Written(f) ==
  CASE f = "name" -> "Aragorn"
    [] f = "health" -> 120
    [] f = "attackPower" -> 25
    [] f = "speed" -> 12

Items == {"Healing Potion", "New Item"}

Clone(src) ==
  /\ src \in DOMAIN objs
  /\ Len(objs) < MaxObjects
  /\ LET r == clone(objs, arrays, maps, src)
     IN  objs' = r.objs /\ arrays' = r.arrays /\ maps' = r.maps
  /\ console' = <<>>
  /\ invoked' = <<>>
  /\ raised' = FALSE
  /\ op' = [name |-> "clone", index |-> src, cmd |-> Null]
  /\ UNCHANGED <<remoteVars, queueVars, singletonVars>>

\* o.name = ..., o.health = ..., ...
WriteField(o, f) ==
  /\ o \in DOMAIN objs
  /\ objs' = assign(objs, o, f, Written(f))
  /\ console' = <<>>
  /\ invoked' = <<>>
  /\ raised' = FALSE
  /\ op' = [name |-> "write", index |-> o, cmd |-> f]
  /\ UNCHANGED <<arrays, maps, remoteVars, queueVars, singletonVars>>

\* o.inventory.push(item)
Push(o, item) ==
  /\ o \in DOMAIN objs
  /\ LET a == Lookup(objs, o, "inventory")
     IN  /\ Len(arrays[a]) < MaxItems
         /\ arrays' = [arrays EXCEPT ![a] = Append(@, item)]
  /\ console' = <<>>
  /\ invoked' = <<>>
  /\ raised' = FALSE
  /\ op' = [name |-> "write", index |-> o, cmd |-> "inventory"]
  /\ UNCHANGED <<objs, maps, remoteVars, queueVars, singletonVars>>

\* o.skills.slash = 999
SetSkill(o) ==
  /\ o \in DOMAIN objs
  /\ LET k == Lookup(objs, o, "skills")
     IN  maps' = [maps EXCEPT ![k].slash = 999]
  /\ console' = <<>>
  /\ invoked' = <<>>
  /\ raised' = FALSE
  /\ op' = [name |-> "write", index |-> o, cmd |-> "skills"]
  /\ UNCHANGED <<objs, arrays, remoteVars, queueVars, singletonVars>>

\* The remote as the client code sets it up: six setCommand calls.
ClientCommands ==
  <<"lightOn", "tvOn", "lightOff", "tvOff", "partyModeOn", "partyModeOff">>

Fresh(cmds) ==
  /\ commands = cmds
  /\ undoCommand = Null
  /\ receivers \in [Receivers -> BOOLEAN]
  /\ arr = [m \in MacroCommands |-> ConstructionOrder(m)]
  /\ console = <<>>
  /\ invoked = <<>>
  /\ raised = FALSE
  /\ op = [name |-> "new", index |-> 0, cmd |-> Null]
  /\ before = receivers
  /\ lastExec = [m \in MacroCommands |-> <<>>]
  /\ undoParity = [m \in MacroCommands |-> 0]
  /\ retried = FALSE
  /\ by = Null
  /\ own = [caller \in Callers |-> Null]
  /\ slotBy = [caller |-> Null, how |-> "new"]
  /\ races = {}
  /\ queue = <<>>
  /\ added = 0
  /\ runs = <<>>
  /\ lastRun = <<>>
  /\ cls = [m \in Modules |->
             [instance |-> NoInstance, objects |-> <<>>, loads |-> 0]]
  /\ returned = [m \in Modules |-> <<>>]
  /\ objs = <<WarriorTemplate>>
  /\ arrays = <<<<"Sword", "Shield">>>>
  /\ maps = <<[slash |-> 15, block |-> 10]>>

\* A new RemoteControl, nothing registered.
Init == Fresh(<<>>) /\ pc = OffScript

\* The RemoteControl of the client code after its setCommand calls.
InitClient == Fresh(ClientCommands) /\ pc = OffScript

\* The client code after its setCommand calls, about to run its script.
InitScript == Fresh(ClientCommands) /\ pc = 0

\* The program as written: Light and TV only print, so nothing throws.
Next ==
  \/ \E c \in Commands : SetCommand(c)
  \/ \E index \in Indices : PressButton(index, 0)
  \/ PressUndo(0)
  \/ \E m \in MacroCommands : MacroExecute(m, 0)
  \/ \E m \in MacroCommands : MacroUndo(m, 0)

Spec == Init /\ [][Next]_vars

\* The same program with receivers whose actions may throw.
NextFault ==
  \/ \E index \in Indices, fault \in Faults : PressButton(index, fault)
  \/ \E fault \in Faults : PressUndo(fault)
  \/ \E m \in MacroCommands, fault \in Faults : MacroExecute(m, fault)
  \/ \E m \in MacroCommands, fault \in Faults : MacroUndo(m, fault)

SpecFault == InitClient /\ [][NextFault]_vars

\* The client's remote, driven through pressButton and pressUndo only; one
\* behaviour is the client script itself.
NextClient ==
  \/ \E index \in Indices : PressButton(index, 0)
  \/ PressUndo(0)

SpecClient == InitScript /\ [][NextClient]_vars

\* A remote with the client's first commands registered, shared by two
\* callers.
InitShared == Fresh(SubSeq(ClientCommands, 1, MaxCommands)) /\ pc = OffScript

NextShared ==
  \/ \E caller \in Callers, index \in Indices :
       CallerPressButton(caller, index)
  \/ \E caller \in Callers : CallerPressUndo(caller)

SpecShared == InitShared /\ [][NextShared]_vars

\* A new queueing RemoteControl and the calls made on it.
NextQueue ==
  \/ \E c \in QueueCommands : AddCommand(c)
  \/ ExecuteCommands

SpecQueue == Init /\ [][NextQueue]_vars

\* The clients of the two ConfigurationManager classes.
NextSingleton ==
  \/ \E m \in Modules : GetInstance(m)
  \/ \E m \in Modules, h \in 1..MaxCalls, key \in Keys : GetSetting(m, h, key)

SpecSingleton == Init /\ [][NextSingleton]_vars

\* The template, its clones, and writes to any of them.
NextPrototype ==
  \/ \E src \in 1..MaxObjects : Clone(src)
  \/ \E o \in 1..MaxObjects, f \in ScalarFields : WriteField(o, f)
  \/ \E o \in 1..MaxObjects, item \in Items : Push(o, item)
  \/ \E o \in 1..MaxObjects : SetSkill(o)

SpecPrototype == Init /\ [][NextPrototype]_vars

\* ------------------------------------------------------------------------
\* Properties
\* ------------------------------------------------------------------------

\* The most recent call was pressButton with an index of a registered command.
PressedValid ==
  op.name = "pressButton" /\ 0 <= op.index /\ op.index < Len(commands)

\* The most recent call was pressButton with an index < 0 or >= count.
PressedInvalid ==
  op.name = "pressButton" /\ (op.index < 0 \/ op.index >= Len(commands))

\* The most recent call called method of command c, directly or through the
\* remote.
Called(c, method) == invoked # <<>> /\ Head(invoked) = <<c, method>>

\* How many times the most recent call called method of command c.
TimesCalled(c, method, calls) ==
  Cardinality({i \in DOMAIN calls : calls[i] = <<c, method>>})

\* C1: pressButton(i) with a valid index followed immediately by pressUndo()
\* leaves every receiver in the status it had before pressButton(i).
C1_UndoRestoresReceivers ==
  [][(PressedValid /\ op'.name = "pressUndo") => receivers' = before]_vars

\* C2: pressButton(index) with index < 0 or index >= count calls no command,
\* does not throw and prints "Command not found".
C2_InvalidIndexReported ==
  PressedInvalid =>
    (invoked = <<>> /\ ~raised /\ console = <<"Command not found">>)

\* C3: every MacroCommand.execute() calls the members' execute() in the order
\* the members were given at construction.
C3_ExecuteInConstructionOrder ==
  \A m \in MacroCommands :
    Called(m, "execute") =>
      MemberCalls(m, "execute", invoked) = ConstructionOrder(m)

\* C4: every MacroCommand.undo() calls the members' undo() in the reverse of
\* the order the members were given at construction.
C4_UndoInReverseConstructionOrder ==
  \A m \in MacroCommands :
    Called(m, "undo") =>
      MemberCalls(m, "undo", invoked) = Reverse(ConstructionOrder(m))

\* C5: once a macro's execute() has been called, every undo() of it calls the
\* members' undo() in the reverse of the order its most recent execute() used.
C5_UndoReversesLastExecute ==
  \A m \in MacroCommands :
    (Called(m, "undo") /\ lastExec[m] # <<>>) =>
      MemberCalls(m, "undo", invoked) = Reverse(lastExec[m])

\* C6: the member array of every MacroCommand (which is the caller's array)
\* always has the contents and order it had at construction.
C6_MembersFixed ==
  \A m \in MacroCommands : arr[m] = ConstructionOrder(m)

\* C7: pressUndo() on a slot holding a command calls that command's undo()
\* once and empties the slot; pressUndo() right after a pressUndo(), and any
\* pressUndo() on an empty slot, calls no command, changes no receiver, prints
\* "No command to undo" and leaves the slot empty.
C7_UndoOnceThenNothing ==
  [][op'.name = "pressUndo" =>
       /\ undoCommand' = Null
       /\ ~raised'
       /\ IF undoCommand # Null /\ op.name # "pressUndo"
          THEN /\ Head(invoked') = <<undoCommand, "undo">>
               /\ TimesCalled(undoCommand, "undo", invoked') = 1
               /\ \A i \in DOMAIN invoked' : invoked'[i][2] = "undo"
          ELSE /\ invoked' = <<>>
               /\ receivers' = receivers
               /\ console' = <<"No command to undo">>]_vars

\* C7 witness: pressUndo() has undone the "everything off" macro and emptied
\* the slot.
C7_Witness ==
  /\ op.name = "pressUndo"
  /\ Called("partyModeOff", "undo")
  /\ undoCommand = Null

\* C8: after pressButton(i) with a valid index the slot holds the command
\* registered at i, whatever it held before; only pressButton and pressUndo
\* change the slot, so pressUndo() undoes the command dispatched last and no
\* earlier one.
C8_SlotHoldsLastDispatched ==
  [][/\ (op'.name = "pressButton" /\ 0 <= op'.index
                                  /\ op'.index < Len(commands'))
          => undoCommand' = commands'[op'.index + 1]
     /\ undoCommand' # undoCommand
          => op'.name \in {"pressButton", "pressUndo"}
     /\ (op'.name = "pressUndo" /\ invoked' # <<>>)
          => (Head(invoked') = <<undoCommand, "undo">>
              /\ TimesCalled(undoCommand, "undo", invoked') = 1)]_vars

\* C8 witness: a dispatch has overwritten a slot that held another command
\* that was never undone, and the slot holds the command just dispatched.
C8_Witness ==
  /\ PressedValid
  /\ Len(commands) = 2
  /\ commands[1] # commands[2]
  /\ op.index = 1
  /\ undoCommand = commands[2]

\* C9: pressButton(index) with an invalid index changes neither the slot, nor
\* the registered list, nor any receiver (nor any macro's members), so
\* pressUndo() does afterwards what it would have done before.
C9_InvalidPressChangesNothing ==
  [][(op'.name = "pressButton"
        /\ (op'.index < 0 \/ op'.index >= Len(commands)))
       => /\ UNCHANGED <<commands, undoCommand, receivers, arr>>
          /\ pressUndo(Start(0))' = pressUndo(Start(0))]_vars

\* C9 witness: an out-of-range pressButton was reported while the slot held a
\* command.
C9_Witness ==
  /\ PressedInvalid
  /\ console = <<"Command not found">>
  /\ undoCommand # Null

\* C10: when execute() of the command at a valid index throws, the throw
\* reaches the caller of pressButton and the slot is set to that command.
C10_SlotSetWhenExecuteThrows ==
  (PressedValid /\ raised) => undoCommand = commands[op.index + 1]

\* C11: when a member's execute() throws part-way through a macro dispatched
\* by pressButton (an earlier member has already executed), the pressUndo()
\* that follows undoes that macro, not an earlier command and not nothing.
C11_FailedMacroCanBeUndone ==
  [][(/\ PressedValid
      /\ raised
      /\ commands[op.index + 1] \in MacroCommands
      /\ Len(invoked) > 2
      /\ op'.name = "pressUndo")
       => (invoked' # <<>>
           /\ Head(invoked') = <<commands[op.index + 1], "undo">>)]_vars

\* C12: on the client's remote, pressButton(0) ... pressButton(5) followed by
\* pressUndo() ends with the light ON and the TV ON, and the receiver actions
\* of that last call are the two made by the undo of the macro at index 5.
C12_ClientScriptEndsAllOn ==
  pc = Len(ClientScript) =>
    /\ receivers = [r \in Receivers |-> TRUE]
    /\ Called(ClientCommands[6], "undo")
    /\ Len(console) = 2
    /\ {console[1], console[2]} = {"Light is ON", "TV is ON"}

\* C12 witness: the client script has run to its end.
C12_Witness == pc = Len(ClientScript) /\ op.name = "pressUndo"

\* C13: setCommand appends: the k-th call (k = 0, 1, ...) puts its command at
\* index k and leaves every earlier entry in place; no other call changes the
\* list; pressButton(k) executes the command registered at k.
C13_IndicesStable ==
  [][/\ op'.name = "setCommand"
          => (/\ Len(commands') = Len(commands) + 1
              /\ commands'[Len(commands) + 1] = op'.cmd
              /\ \A k \in DOMAIN commands : commands'[k] = commands[k])
     /\ op'.name # "setCommand" => commands' = commands
     /\ (op'.name = "pressButton" /\ 0 <= op'.index
                                  /\ op'.index < Len(commands))
          => (invoked' # <<>>
              /\ Head(invoked') = <<commands[op'.index + 1], "execute">>)]_vars

\* C13 witness: after a second setCommand, pressButton(0) has executed the
\* command registered first.
C13_Witness ==
  /\ Len(commands) = 2
  /\ commands[1] # commands[2]
  /\ PressedValid
  /\ op.index = 0
  /\ Called(commands[1], "execute")

\* C14: when one command instance is registered at two indices, pressButton
\* on either index makes the same calls with the same receiver effect and
\* leaves that instance in the slot, and the pressUndo() that follows undoes
\* through that instance with the same receiver effect.
C14_SameInstanceSameEffect ==
  \A i, j \in 0..(Len(commands) - 1) :
    (i # j /\ commands[i + 1] = commands[j + 1]) =>
      LET a == pressButton(i, Start(0))
          b == pressButton(j, Start(0))
      IN  /\ Head(a.invoked) = <<commands[i + 1], "execute">>
          /\ a.invoked = b.invoked
          /\ a.console = b.console
          /\ a.receivers = b.receivers
          /\ a.undoCommand = commands[i + 1]
          /\ b.undoCommand = commands[i + 1]
          /\ Head(pressUndo([a EXCEPT !.invoked = <<>>]).invoked)
               = <<commands[i + 1], "undo">>
          /\ pressUndo(a).invoked = pressUndo(b).invoked
          /\ pressUndo(a).receivers = pressUndo(b).receivers

\* C14 witness: the same instance is registered at indices 0 and 1 and has
\* been dispatched through index 1.
C14_Witness ==
  /\ Len(commands) = 2
  /\ commands[1] = commands[2]
  /\ PressedValid
  /\ op.index = 1
  /\ undoCommand = commands[1]

\* C19: the slot is empty initially, setCommand never changes it, and in
\* every reachable state it is empty or holds a command that is in the
\* registered list.
C19_SlotHoldsRegisteredCommand ==
  /\ undoCommand = Null
  /\ [](undoCommand = Null
        \/ \E k \in DOMAIN commands : commands[k] = undoCommand)
  /\ [][op'.name = "setCommand" => undoCommand' = undoCommand]_vars

\* C19 witness: setCommand was called while the slot held a command, and the
\* slot still holds it.
C19_Witness ==
  /\ op.name = "setCommand"
  /\ undoCommand # Null
  /\ undoCommand # op.cmd

\* C20: a macro's member array is in construction order after an even number
\* of undo() calls on it and in the exact reverse after an odd number, and
\* execute() never changes the array.
C20_OrderFollowsUndoParity ==
  /\ [](\A m \in MacroCommands :
          arr[m] = IF undoParity[m] = 0 THEN ConstructionOrder(m)
                   ELSE Reverse(ConstructionOrder(m)))
  /\ [][\A m \in MacroCommands :
          (invoked' # <<>> /\ Head(invoked') = <<m, "execute">>)
            => arr'[m] = arr[m]]_vars

\* C20 witness: a macro was executed after an odd number of undo() calls, its
\* members still in reverse order.
C20_Witness ==
  /\ undoParity["partyModeOn"] = 1
  /\ Called("partyModeOn", "execute")
  /\ arr["partyModeOn"] = <<"tvOn", "lightOn">>

\* C15: the one slot is shared by all callers.  It holds the command of
\* whichever caller dispatched last, and any caller's pressUndo() undoes that
\* command and empties the slot for everyone; so a caller's pressUndo() can
\* undo the other caller's dispatch instead of its own ("stolen"), and can
\* find the slot emptied by the other caller ("emptied").
C15_SlotSharedByCallers ==
  /\ [](/\ undoCommand # Null
            => (slotBy.how = "dispatch"
                /\ undoCommand = own[slotBy.caller])
        /\ \A caller \in Callers :
             (undoCommand = Null /\ own[caller] # Null)
               => (slotBy.how = "undo" /\ slotBy.caller # caller))
  /\ [][(op'.name = "pressUndo" /\ undoCommand # Null)
          => (/\ Head(invoked') = <<own[slotBy.caller], "undo">>
              /\ undoCommand' = Null)]_vars

\* C15 witness: both races have happened: a caller's pressUndo() undid the
\* other caller's dispatch while its own dispatch was pending, and a
\* caller's pressUndo() found the slot emptied by the other caller.
C15_Witness == races = {"stolen", "emptied"}

\* C16: executeCommands() executes the entries added since the previous
\* executeCommands(), each once and in the order added, and empties the list;
\* an executeCommands() right after another executes nothing; no entry is
\* ever executed by two executeCommands() calls.
C16_QueueExecutedOnce ==
  /\ [](\A id \in 1..added :
          /\ runs[id] <= 1
          /\ runs[id] = 0 <=> Occurrences(id, queue) = 1
          /\ Occurrences(id, queue) <= 1)
  /\ [][op'.name = "executeCommands"
          => (/\ queue' = <<>>
              /\ lastRun' = queue
              /\ invoked' = [k \in DOMAIN queue |-> <<queue[k].cmd, "execute">>]
              /\ \A k \in DOMAIN queue : queue[k].id = added - Len(queue) + k
              /\ op.name = "executeCommands" => invoked' = <<>>)]_vars

\* C16 witness: an executeCommands() has run the two entries added after an
\* earlier executeCommands() that ran the first entry.
C16_Witness ==
  /\ op.name = "executeCommands"
  /\ added = 3
  /\ Len(lastRun) = 2
  /\ lastRun[1].id = 2
  /\ lastRun[2].id = 3
  /\ runs = <<1, 1, 1>>

\* C17: whatever the number of getInstance() calls, every call of a class has
\* returned the same instance, at most one ConfigurationManager of the class
\* has been constructed and loadConfigurations() has run at most once.
C17_OneInstance ==
  \A m \in Modules :
    /\ Len(cls[m].objects) <= 1
    /\ cls[m].loads <= 1
    /\ \A i, j \in DOMAIN returned[m] :
         returned[m][i] = returned[m][j] /\ returned[m][i] # NoInstance

\* C17 witness: getInstance() has been called several times on both classes.
C17_Witness ==
  \A m \in Modules : Len(returned[m]) >= 2 /\ cls[m].loads = 1

\* C18: a write to a field of a character (the prototype or a clone) leaves
\* the value read from that field of every other character unchanged.
C18_CloneIndependent ==
  [][op'.name = "write"
       => \A y \in DOMAIN objs :
            y # op'.index
              => Value(objs', arrays', maps', y, op'.cmd)
                   = Value(objs, arrays, maps, y, op'.cmd)]_vars

\* C21: when undo() of the command in the slot throws during pressUndo(), the
\* exception reaches the caller and the slot still holds the same command;
\* a pressUndo() made next calls that command's undo() again and does not
\* print "No command to undo".
C21_UndoThrowKeepsSlot ==
  [][/\ (op'.name = "pressUndo" /\ raised')
          => /\ undoCommand # Null
             /\ undoCommand' = undoCommand
             /\ Head(invoked') = <<undoCommand, "undo">>
     /\ (op.name = "pressUndo" /\ raised /\ op'.name = "pressUndo")
          => /\ invoked' # <<>>
             /\ Head(invoked') = <<undoCommand, "undo">>
             /\ \A i \in DOMAIN console' : console'[i] # "No command to undo"
    ]_vars

C21_Witness ==
  /\ retried
  /\ invoked # <<>>
  /\ Head(invoked)[2] = "undo"

====
